---- MODULE Spec2Model ----
(***************************************************************************)
(* A model of the jedidb indexing-and-consistency engine:                  *)
(*   src/src/jedidb/utils.py          path matcher, hashing, discovery     *)
(*   src/src/jedidb/core/database.py  the seven record sets, cascade       *)
(*                                    delete, derived-data passes, export  *)
(*                                    and re-hydration                     *)
(*   src/src/jedidb/core/indexer.py   staleness check and the index run    *)
(* Strings that the code inspects character by character (paths, glob      *)
(* patterns) are sequences of one-character strings.  A dotted full_name   *)
(* is the sequence of its components; SQL NULL / Python None is 0 for an   *)
(* id and the empty sequence for a name.                                   *)
(***************************************************************************)
EXTENDS Integers, Sequences, FiniteSets, TLC

Null == 0
NoName == <<>>

\* ------------------------------------------------------------------ bounds
\* Largest File id the model lets an index run allocate up to.
MaxFileId == 3
\* Largest Call id the model lets a call-graph rebuild allocate up to.
MaxCallId == 2
\* How many times the source tree changes.
MaxEdits == 1
\* How many times the store is exported.
MaxExports == 1
\* Exports begun in a behaviour of the step-by-step export.
MaxRewrites == 2
\* Functions in a module, and statements in a function body, of the
\* modules whose call sites are numbered.
MaxFunctions == 2
MaxStatements == 2

\* ------------------------------------------------------- character strings
StartsWith(s, pre) == Len(s) >= Len(pre) /\ SubSeq(s, 1, Len(pre)) = pre
EndsWith(s, suf) == Len(s) >= Len(suf) /\ SubSeq(s, Len(s) - Len(suf) + 1, Len(s)) = suf
Contains(s, ch) == \E k \in 1..Len(s) : s[k] = ch

DotPy == <<".", "p", "y">>
StarStarSlash == <<"*", "*", "/">>

\* utils.expand_pattern
expand_pattern(pattern) ==
    IF Contains(pattern, "/")
    THEN IF EndsWith(pattern, <<"/">>) THEN pattern \o <<"*", "*">>
         ELSE IF EndsWith(pattern, DotPy)
              THEN IF ~StartsWith(pattern, StarStarSlash) /\ ~StartsWith(pattern, <<"/">>)
                   THEN StarStarSlash \o pattern
                   ELSE pattern
         ELSE IF Contains(pattern, "*") THEN pattern
         ELSE pattern \o <<"/", "*", "*">>
    ELSE IF Contains(pattern, "*")
         THEN (IF ~StartsWith(pattern, StarStarSlash) THEN StarStarSlash ELSE <<>>)
              \o pattern
              \o (IF ~EndsWith(pattern, DotPy) THEN DotPy ELSE <<>>)
    ELSE IF EndsWith(pattern, <<"_">>) THEN StarStarSlash \o pattern \o <<"*">> \o DotPy
    ELSE IF StartsWith(pattern, <<"_">>) THEN StarStarSlash \o <<"*">> \o pattern \o DotPy
    ELSE StarStarSlash \o pattern \o <<"/", "*", "*">>

\* utils.glob_match, first half: the glob pattern becomes a list of regex
\* parts.  ANY is ".*", OPTSLASH is "/?", SEG is "[^/]*", ONE is "[^/]";
\* every other part is one literal character (escaped or not).
RECURSIVE GlobRegex(_)
GlobRegex(pattern) ==
    IF pattern = <<>> THEN <<>>
    ELSE IF Len(pattern) >= 2 /\ pattern[1] = "*" /\ pattern[2] = "*"
         THEN IF Len(pattern) >= 3 /\ pattern[3] = "/"
              THEN <<"ANY", "OPTSLASH">> \o GlobRegex(SubSeq(pattern, 4, Len(pattern)))
              ELSE <<"ANY">> \o GlobRegex(SubSeq(pattern, 3, Len(pattern)))
    ELSE IF pattern[1] = "*" THEN <<"SEG">> \o GlobRegex(Tail(pattern))
    ELSE IF pattern[1] = "?" THEN <<"ONE">> \o GlobRegex(Tail(pattern))
    ELSE <<pattern[1]>> \o GlobRegex(Tail(pattern))

\* utils.glob_match, second half: re.match("^" + parts + "$", path_str).
RECURSIVE RegexMatch(_, _)
RegexMatch(re, s) ==
    IF re = <<>> THEN s = <<>>
    ELSE LET t == Head(re)
             rest == Tail(re)
         IN  IF t = "ANY"
             THEN \E k \in 0..Len(s) : RegexMatch(rest, SubSeq(s, k + 1, Len(s)))
             ELSE IF t = "OPTSLASH"
             THEN RegexMatch(rest, s)
                  \/ (s # <<>> /\ Head(s) = "/" /\ RegexMatch(rest, Tail(s)))
             ELSE IF t = "SEG"
             THEN \E k \in 0..Len(s) :
                     /\ \A j \in 1..k : s[j] # "/"
                     /\ RegexMatch(rest, SubSeq(s, k + 1, Len(s)))
             ELSE IF t = "ONE"
             THEN s # <<>> /\ Head(s) # "/" /\ RegexMatch(rest, Tail(s))
             ELSE s # <<>> /\ Head(s) = t /\ RegexMatch(rest, Tail(s))

glob_match(path_str, pattern) == RegexMatch(GlobRegex(pattern), path_str)

\* utils.match_glob_patterns: exclude first, then include (empty = all).
match_glob_patterns(rel_str, include, exclude) ==
    IF \E k \in 1..Len(exclude) : glob_match(rel_str, exclude[k]) THEN FALSE
    ELSE IF include # <<>> THEN \E k \in 1..Len(include) : glob_match(rel_str, include[k])
    ELSE TRUE

\* ------------------------------------------------------------ the project
\* The source tree: two module files under the project root, in the order
\* sorted() gives them.
PathOrder == <<"a.py", "test_b.py">>
Paths == {PathOrder[k] : k \in 1..Len(PathOrder)}
PathChars == [p \in Paths |->
    IF p = "a.py" THEN <<"a", ".", "p", "y">>
    ELSE <<"t", "e", "s", "t", "_", "b", ".", "p", "y">>]
ModuleOf == [p \in Paths |-> IF p = "a.py" THEN "a" ELSE "test_b"]

\* What a path holds on disk: nothing, a file that cannot be opened, or a
\* file with one of four contents.
Absent == "absent"
Unreadable == "unreadable"
Contents == {"lib", "app", "bad", "local"}
DiskEntries == {Absent, Unreadable} \cup Contents
\* The contents each path is given: a.py is the library module or does not
\* parse, test_b.py is the application module.
EntriesOf == [p \in Paths |->
    IF p = "a.py" THEN {Absent, Unreadable, "lib", "bad"} ELSE {Absent, Unreadable, "app"}]

\* utils.compute_file_hash: SHA256 of the content (distinct contents have
\* distinct digests); only defined for a file that can be opened.
HashDigest == [c \in Contents |->
    IF c = "lib" THEN "sha:lib" ELSE IF c = "app" THEN "sha:app"
    ELSE IF c = "bad" THEN "sha:bad" ELSE "sha:local"]
CanHash(entry) == entry \in Contents
compute_file_hash(entry) == HashDigest[entry]

\* analyzer._name_to_definition, lines 331-334: the dotted prefix.
ParentFullName(full_name) ==
    IF Len(full_name) > 1 THEN SubSeq(full_name, 1, Len(full_name) - 1) ELSE NoName

MkDef(full_name, type, line, end_line) ==
    [full_name |-> full_name, type |-> type, line |-> line, end_line |-> end_line,
     parent_full_name |-> ParentFullName(full_name)]

\* Analyzer.analyze_file on the four contents.  "bad" does not decode or
\* parse and raises.  Jedi gives the class in "local" no full_name: the
\* definition falls back to the bare name (lines 324-326), the class base
\* keeps name.full_name (line 276).  For module m:
\*   local: 1  def outer():
\*          2      def inner():
\*          3          class Local(dict):
\*          4              pass
\*          5          return Local
\*          6      return inner
\*   lib:  1  @cache
\*         2  def helper():
\*         3      return 42
\*   app:  1  from a import helper
\*         2  class User(BaseModel):
\*         3      def save(self):
\*         4          return helper()
\*         5  User = wrap(User)
AnalysisFails(content) == content = "bad"

AnalyzeDefinitions(m, content) ==
    IF content = "lib"
    THEN << MkDef(<<m, "helper">>, "function", 2, 3) >>
    ELSE IF content = "local"
    THEN << MkDef(<<m, "outer">>, "function", 1, 6),
            MkDef(<<m, "outer", "inner">>, "function", 2, 5),
            MkDef(<<"Local">>, "class", 3, 4) >>
    ELSE << MkDef(<<"a", "helper">>, "function", 1, 1),
            MkDef(<<m, "User">>, "class", 2, 4),
            MkDef(<<m, "User", "save">>, "function", 3, 4),
            MkDef(<<m, "User">>, "variable", 5, 5) >>

\* target_full_name is filled in only when reference resolution is on.
AnalyzeReferences(m, content, resolve) ==
    IF content = "lib" THEN <<>>
    ELSE IF content = "local"
    THEN << [name |-> "dict", line |-> 3, col |-> 20, is_call |-> FALSE,
             target_full_name |-> IF resolve THEN <<"builtins", "dict">> ELSE NoName],
            [name |-> "Local", line |-> 5, col |-> 15, is_call |-> FALSE,
             target_full_name |-> NoName],
            [name |-> "inner", line |-> 6, col |-> 11, is_call |-> FALSE,
             target_full_name |-> IF resolve THEN <<m, "outer", "inner">> ELSE NoName] >>
    ELSE << [name |-> "helper", line |-> 4, col |-> 15, is_call |-> TRUE,
             target_full_name |-> IF resolve THEN <<"a", "helper">> ELSE NoName],
            [name |-> "wrap", line |-> 5, col |-> 7, is_call |-> TRUE,
             target_full_name |-> NoName],
            [name |-> "User", line |-> 5, col |-> 12, is_call |-> FALSE,
             target_full_name |-> IF resolve THEN <<m, "User">> ELSE NoName] >>

AnalyzeImports(m, content) ==
    IF content \in {"lib", "local"} THEN <<>>
    ELSE << [module |-> "a", line |-> 1] >>

\* A decorator carries its owner's full_name until it is linked.
AnalyzeDecorators(m, content) ==
    IF content = "lib"
    THEN << [name |-> "cache", full_name |-> <<m, "helper">>, line |-> 1] >>
    ELSE <<>>

AnalyzeClassBases(m, content) ==
    IF content = "lib" THEN <<>>
    ELSE IF content = "local"
    THEN << [base_name |-> "dict", base_full_name |-> <<"builtins", "dict">>,
             position |-> 0, class_full_name |-> NoName] >>
    ELSE << [base_name |-> "BaseModel", base_full_name |-> <<"pydantic", "BaseModel">>,
             position |-> 0, class_full_name |-> <<m, "User">>] >>


\* ---------------------------------------------------------------- the store
\* database.SCHEMA_SQL: seven tables, each with its own id sequence.
Tables == {"files", "definitions", "refs", "imports", "decorators", "class_bases", "calls"}

EmptyDb ==
    [files |-> {}, definitions |-> {}, refs |-> {}, imports |-> {}, decorators |-> {},
     class_bases |-> {}, calls |-> {},
     seq |-> [t \in Tables |-> 1]]

\* The rows a batch insert adds: the k-th row takes nextval() = start + k - 1.
Numbered(rows, start) == {[id |-> start + k - 1, row |-> rows[k]] : k \in 1..Len(rows)}

\* Database.get_file
get_file(d, path) == {f \in d.files : f.path = path}

\* Database.insert_file
insert_file(d, path, hash) ==
    [d EXCEPT !.files = @ \cup {[id |-> d.seq.files, path |-> path, hash |-> hash]},
              !.seq.files = @ + 1]

\* Database.delete_decorators_by_file
delete_decorators_by_file(d, file_id) ==
    LET ids == {x.id : x \in {y \in d.definitions : y.file_id = file_id}}
    IN  [d EXCEPT !.decorators = {x \in @ : x.definition_id \notin ids}]

\* Database.delete_class_bases_by_file
delete_class_bases_by_file(d, file_id) ==
    LET ids == {x.id : x \in {y \in d.definitions : y.file_id = file_id /\ y.type = "class"}}
    IN  [d EXCEPT !.class_bases = {x \in @ : x.class_id \notin ids}]

\* Database.delete_file
delete_file(d, file_id) ==
    LET d1 == delete_decorators_by_file(d, file_id)
        d2 == delete_class_bases_by_file(d1, file_id)
    IN  [d2 EXCEPT !.calls = {x \in @ : x.file_id # file_id},
                   !.refs = {x \in @ : x.file_id # file_id},
                   !.imports = {x \in @ : x.file_id # file_id},
                   !.definitions = {x \in @ : x.file_id # file_id},
                   !.files = {x \in @ : x.id # file_id}]

\* Database.delete_file_by_path
delete_file_by_path(d, path) ==
    IF get_file(d, path) = {} THEN d
    ELSE delete_file(d, (CHOOSE f \in get_file(d, path) : TRUE).id)

\* Database.insert_definitions_batch (parent_id is not known yet)
insert_definitions_batch(d, file_id, definitions) ==
    [d EXCEPT !.definitions = @ \cup
                 {[id |-> n.id, file_id |-> file_id, full_name |-> n.row.full_name,
                   type |-> n.row.type, line |-> n.row.line, end_line |-> n.row.end_line,
                   parent_id |-> Null, parent_full_name |-> n.row.parent_full_name]
                  : n \in Numbered(definitions, d.seq.definitions)},
              !.seq.definitions = @ + Len(definitions)]

\* Database.insert_references_batch
insert_references_batch(d, file_id, references) ==
    [d EXCEPT !.refs = @ \cup
                 {[id |-> n.id, file_id |-> file_id, name |-> n.row.name,
                   line |-> n.row.line, col |-> n.row.col,
                   target_full_name |-> n.row.target_full_name, is_call |-> n.row.is_call]
                  : n \in Numbered(references, d.seq.refs)},
              !.seq.refs = @ + Len(references)]

\* Database.insert_imports_batch
insert_imports_batch(d, file_id, imports) ==
    [d EXCEPT !.imports = @ \cup
                 {[id |-> n.id, file_id |-> file_id, module |-> n.row.module,
                   line |-> n.row.line]
                  : n \in Numbered(imports, d.seq.imports)},
              !.seq.imports = @ + Len(imports)]

\* Database.insert_decorators_batch; each row already carries definition_id.
insert_decorators_batch(d, decorators) ==
    [d EXCEPT !.decorators = @ \cup
                 {[id |-> n.id, definition_id |-> n.row.definition_id,
                   name |-> n.row.name, line |-> n.row.line]
                  : n \in Numbered(decorators, d.seq.decorators)},
              !.seq.decorators = @ + Len(decorators)]

\* Database.insert_class_bases_batch; each row already carries class_id.
insert_class_bases_batch(d, class_bases) ==
    [d EXCEPT !.class_bases = @ \cup
                 {[id |-> n.id, class_id |-> n.row.class_id,
                   base_name |-> n.row.base_name,
                   base_full_name |-> n.row.base_full_name,
                   base_id |-> n.row.base_id, position |-> n.row.position]
                  : n \in Numbered(class_bases, d.seq.class_bases)},
              !.seq.class_bases = @ + Len(class_bases)]


\* Database.build_call_graph: COALESCE(d.end_line, 999999)
NoEndLine == 999999
EndOr(dd) == IF dd.end_line = Null THEN NoEndLine ELSE dd.end_line

\* All functions on S that pick f[x] in C(x); C(x) is never empty.
ChoiceFns(S, C(_)) ==
    LET multi == {x \in S : Cardinality(C(x)) > 1}
        U == UNION {C(x) : x \in multi}
    IN  {[x \in S |-> IF x \in multi THEN g[x] ELSE CHOOSE v \in C(x) : TRUE]
         : g \in {h \in [multi -> U] : \A x \in multi : h[x] \in C(x)}}

\* Database.populate_parent_ids: the scalar subquery with LIMIT 1 yields
\* some same-file row whose full_name is the parent_full_name, or NULL.
\* The candidates as they would be if the subquery matched on the file only.
ParentCandidatesByFileOnly(d, x) ==
    LET m == {p.id : p \in {y \in d.definitions : y.file_id = x.file_id}}
    IN  IF m = {} THEN {Null} ELSE m
ParentCandidates(d, x) ==
    LET m == {p.id : p \in {y \in d.definitions :
                              y.full_name = x.parent_full_name /\ y.file_id = x.file_id}}
    IN  IF m = {} THEN {Null} ELSE m
WithParentName(d) == {x \in d.definitions : x.parent_full_name # NoName}
ParentChoices(d) == ChoiceFns(WithParentName(d), LAMBDA x : ParentCandidates(d, x))
populate_parent_ids(d, par) ==
    [d EXCEPT !.definitions =
        {IF x \in WithParentName(d) THEN [x EXCEPT !.parent_id = par[x]] ELSE x : x \in @}]

\* Database.build_call_graph.  The inner JOIN keeps a call reference only
\* if some function/class of its file encloses its line; rn = 1 keeps one
\* (caller, callee) pair per reference, a caller of minimal range first.
Enclosing(d, r) ==
    {dd \in d.definitions : /\ dd.file_id = r.file_id
                            /\ r.line >= dd.line /\ r.line <= EndOr(dd)
                            /\ dd.type \in {"function", "class"}}
\* The caller as it would be picked without the ranking by range.
EnclosingUnranked(d, r) == Enclosing(d, r)
InnermostEnclosing(d, r) ==
    {dd \in Enclosing(d, r) :
        \A e \in Enclosing(d, r) : EndOr(dd) - dd.line <= EndOr(e) - e.line}
CalleeIds(d, r) ==
    LET m == {c.id : c \in {x \in d.definitions :
                              r.target_full_name # NoName /\ x.full_name = r.target_full_name}}
    IN  IF m = {} THEN {Null} ELSE m
CallPairs(d, r) ==
    {[caller |-> dd, callee_id |-> c] : dd \in InnermostEnclosing(d, r), c \in CalleeIds(d, r)}
JoinedCallRefs(d) == {r \in d.refs : r.is_call /\ Enclosing(d, r) # {}}
CallChoices(d) == ChoiceFns(JoinedCallRefs(d), LAMBDA r : CallPairs(d, r))
\* New rows take ids in the order of the references they come from.
CallRank(d, r) == Cardinality({q \in JoinedCallRefs(d) : q.id < r.id})
\* Lines 524-553: the INSERT ... SELECT.
NewCallRows(d, ch) ==
    {[id |-> d.seq.calls + CallRank(d, r),
      caller_full_name |-> ch[r].caller.full_name,
      callee_full_name |-> r.target_full_name,
      callee_name |-> r.name,
      caller_id |-> ch[r].caller.id,
      callee_id |-> ch[r].callee_id,
      file_id |-> r.file_id, line |-> r.line, col |-> r.col]
     : r \in JoinedCallRefs(d)}
\* build_call_graph as it would be without the DELETE FROM calls.
build_call_graph_keeping_rows(d, ch) ==
    [d EXCEPT !.calls = @ \cup NewCallRows(d, ch),
              !.seq.calls = @ + Cardinality(JoinedCallRefs(d))]
build_call_graph(d, ch) ==
    [d EXCEPT !.calls = NewCallRows(d, ch),
              !.seq.calls = @ + Cardinality(JoinedCallRefs(d))]

\* Database.export_to_parquet: one parquet file per table.
NoSnapshot ==
    [exists |-> FALSE, files |-> {}, definitions |-> {}, refs |-> {}, imports |-> {},
     decorators |-> {}, class_bases |-> {}, calls |-> {}]
export_to_parquet(d) ==
    [exists |-> TRUE, files |-> d.files, definitions |-> d.definitions, refs |-> d.refs,
     imports |-> d.imports, decorators |-> d.decorators, class_bases |-> d.class_bases,
     calls |-> d.calls]

\* Database.open_parquet, lines 627-631: COALESCE(MAX(id), 0) + 1
MaxId(rows) == IF rows = {} THEN 0 ELSE CHOOSE m \in {x.id : x \in rows} : \A x \in rows : x.id <= m
\* The sequence start as it would be if it were taken from the row count.
SeqStartFromCount(rows) == Cardinality(rows) + 1
SeqStart(rows) == MaxId(rows) + 1
open_parquet(snap) ==
    [files |-> snap.files, definitions |-> snap.definitions, refs |-> snap.refs,
     imports |-> snap.imports, decorators |-> snap.decorators,
     class_bases |-> snap.class_bases, calls |-> snap.calls,
     seq |-> [t \in Tables |-> SeqStart(snap[t])]]

\* ------------------------------------------------------------- discovery
\* utils.discover_python_files, lines 253-267
default_exclude ==
    << <<"*", "*", "/", "_", "_", "p", "y", "c", "a", "c", "h", "e", "_", "_", "/", "*", "*">>,
       <<"*", "*", "/", ".", "g", "i", "t", "/", "*", "*">>,
       <<"*", "*", "/", ".", "v", "e", "n", "v", "/", "*", "*">>,
       <<"*", "*", "/", ".", "t", "o", "x", "/", "*", "*">>,
       <<"*", "*", "/", ".", "m", "y", "p", "y", "_", "c", "a", "c", "h", "e", "/", "*", "*">>,
       <<"*", "*", "/", ".", "p", "y", "t", "e", "s", "t", "_", "c", "a", "c", "h", "e", "/", "*", "*">>,
       <<"*", "*", "/", ".", "r", "u", "f", "f", "_", "c", "a", "c", "h", "e", "/", "*", "*">>,
       <<"*", "*", "/", "v", "e", "n", "v", "/", "*", "*">>,
       <<"*", "*", "/", "n", "o", "d", "e", "_", "m", "o", "d", "u", "l", "e", "s", "/", "*", "*">>,
       <<"*", "*", "/", "*", ".", "e", "g", "g", "-", "i", "n", "f", "o", "/", "*", "*">>,
       <<"*", "*", "/", "b", "u", "i", "l", "d", "/", "*", "*">>,
       <<"*", "*", "/", "d", "i", "s", "t", "/", "*", "*">> >>

expand_patterns(patterns) == [k \in 1..Len(patterns) |-> expand_pattern(patterns[k])]

\* A path is filtered by its own patterns only; the verdict does not depend
\* on the disk.
PassesPatterns(p, include, exclude) ==
    match_glob_patterns(PathChars[p], expand_patterns(include),
                        expand_patterns(exclude) \o default_exclude)

\* utils.discover_python_files: rglob("*.py") filtered and sorted.
discover_python_files(dsk, passes) ==
    SelectSeq(PathOrder, LAMBDA p : dsk[p] # Absent /\ passes[p])


\* ------------------------------------------------------------ the indexer
\* The arguments of one call: explicit paths (empty = scan the root),
\* include patterns, exclude patterns.
RootDir == "."
TestGlob == <<"*", "*", "/", "t", "e", "s", "t", "_", "*", ".", "p", "y">>
ScanAll == [paths |-> <<>>, include |-> <<>>, exclude |-> <<>>]
ScanNoTests == [paths |-> <<>>, include |-> <<>>, exclude |-> <<TestGlob>>]
OnlyB == [paths |-> <<"test_b.py">>, include |-> <<>>, exclude |-> <<>>]
ArgChoices == {ScanAll, ScanNoTests, OnlyB}
Passes == [a \in ArgChoices |-> [p \in Paths |-> PassesPatterns(p, a.include, a.exclude)]]

\* Indexer._discover_files: an explicit file is taken as it is, an explicit
\* directory is scanned; without paths the root is scanned.
RECURSIVE DiscoverExplicit(_, _, _)
DiscoverExplicit(dsk, args, k) ==
    IF k > Len(args.paths) THEN <<>>
    ELSE (IF args.paths[k] \in Paths
          THEN (IF dsk[args.paths[k]] # Absent THEN <<args.paths[k]>> ELSE <<>>)
          ELSE IF args.paths[k] = RootDir THEN discover_python_files(dsk, Passes[args])
          ELSE <<>>)
         \o DiscoverExplicit(dsk, args, k + 1)
_discover_files(dsk, args) ==
    IF args.paths # <<>> THEN DiscoverExplicit(dsk, args, 1)
    ELSE discover_python_files(dsk, Passes[args])

Range(q) == {q[k] : k \in 1..Len(q)}

\* Indexer.check_staleness, lines 60-88: the three lists.  It raises when
\* a discovered file that has a File row cannot be hashed
\* (compute_file_hash is outside any try).
StalenessLists(d, dsk, args) ==
    LET disk_paths == Range(_discover_files(dsk, args))
        db_paths == {f.path : f \in d.files}
        stored(p) == (CHOOSE f \in get_file(d, p) : TRUE).hash
    IN  [raised |-> \E p \in disk_paths : p \in db_paths /\ ~CanHash(dsk[p]),
         changed |-> SelectSeq(PathOrder, LAMBDA p :
                       /\ p \in disk_paths /\ p \in db_paths /\ CanHash(dsk[p])
                       /\ compute_file_hash(dsk[p]) # stored(p)),
         added |-> SelectSeq(PathOrder, LAMBDA p : p \in disk_paths /\ p \notin db_paths),
         removed |-> SelectSeq(PathOrder, LAMBDA p : p \in db_paths /\ p \notin disk_paths)]

\* Indexer.check_staleness, lines 90-97: the returned dictionary.
StalenessResult(args, raised, changed, added, removed) ==
    IF raised
    THEN [valid |-> FALSE, args |-> args, raised |-> TRUE, is_stale |-> FALSE,
          changed |-> <<>>, added |-> <<>>, removed |-> <<>>]
    ELSE [valid |-> FALSE, args |-> args, raised |-> FALSE,
          is_stale |-> (changed # <<>> \/ added # <<>> \/ removed # <<>>),
          changed |-> changed, added |-> added, removed |-> removed]

\* check_staleness as it would be if files without a File row went unreported.
check_staleness_without_added(d, dsk, args) ==
    LET l == StalenessLists(d, dsk, args)
    IN  StalenessResult(args, l.raised, l.changed, <<>>, l.removed)

check_staleness(d, dsk, args) ==
    LET l == StalenessLists(d, dsk, args)
    IN  StalenessResult(args, l.raised, l.changed, l.added, l.removed)

Get(map, key) == IF key \in DOMAIN map THEN map[key] ELSE Null

\* Indexer._index_file, lines 243-277, for a file that can be hashed and
\* analyzed: old rows deleted, File row inserted, definitions inserted.
IndexFileHead(d, p, entry) ==
    LET existing == get_file(d, p)
        d1 == IF existing # {} THEN delete_file(d, (CHOOSE f \in existing : TRUE).id) ELSE d
    IN  insert_file(d1, p, compute_file_hash(entry))

\* Indexer._index_file, lines 282-286: full_name_to_id = {row[1]: row[0]}
\* over an unordered SELECT; for a full_name that several rows share the
\* dict keeps whichever row came last.
NameMaps(d, file_id) ==
    LET mine == {x \in d.definitions : x.file_id = file_id}
    IN  ChoiceFns({x.full_name : x \in mine},
                  LAMBDA n : {x.id : x \in {y \in mine : y.full_name = n}})

FileStats(status, nd, nr, ni, ndec, ncb) ==
    [status |-> status, definitions |-> nd, references |-> nr, imports |-> ni,
     decorators |-> ndec, class_bases |-> ncb]

\* Indexer._index_file.  The result carries the store as the call leaves
\* it and how it ended: an exception of compute_file_hash or of
\* analyze_file, a return with indexed = False, or a return with
\* indexed = True.
IndexFileBody(d, p, entry, force, resolve, full_name_to_id) ==
    IF ~CanHash(entry)
    THEN [db |-> d, stats |-> FileStats("hash_error", 0, 0, 0, 0, 0)]
    ELSE IF ~force /\ \E f \in get_file(d, p) : f.hash = compute_file_hash(entry)
    THEN [db |-> d, stats |-> FileStats("unchanged", 0, 0, 0, 0, 0)]
    ELSE IF AnalysisFails(entry)
    THEN [db |-> IndexFileHead(d, p, entry), stats |-> FileStats("analysis_error", 0, 0, 0, 0, 0)]
    ELSE
    LET m == ModuleOf[p]
        d2 == IndexFileHead(d, p, entry)
        file_id == d2.seq.files - 1
        definitions == AnalyzeDefinitions(m, entry)
        references == AnalyzeReferences(m, entry, resolve)
        imports == AnalyzeImports(m, entry)
        decorators == AnalyzeDecorators(m, entry)
        class_bases == AnalyzeClassBases(m, entry)
        d3 == insert_definitions_batch(d2, file_id, definitions)
        linked_decorators ==
            [k \in 1..Len(decorators) |->
                [name |-> decorators[k].name, line |-> decorators[k].line,
                 definition_id |-> Get(full_name_to_id, decorators[k].full_name)]]
        valid_decorators == SelectSeq(linked_decorators, LAMBDA x : x.definition_id # Null)
        d4 == insert_decorators_batch(d3, valid_decorators)
        linked_class_bases ==
            [k \in 1..Len(class_bases) |->
                [base_name |-> class_bases[k].base_name,
                 base_full_name |-> class_bases[k].base_full_name,
                 position |-> class_bases[k].position,
                 class_id |-> Get(full_name_to_id, class_bases[k].class_full_name),
                 base_id |-> IF class_bases[k].base_full_name # NoName
                             THEN Get(full_name_to_id, class_bases[k].base_full_name)
                             ELSE Null]]
        valid_class_bases == SelectSeq(linked_class_bases, LAMBDA x : x.class_id # Null)
        d5 == insert_class_bases_batch(d4, valid_class_bases)
        d6 == insert_references_batch(d5, file_id, references)
        d7 == insert_imports_batch(d6, file_id, imports)
    IN  [db |-> d7,
         stats |-> FileStats("indexed", Len(definitions), Len(references), Len(imports),
                             Len(decorators), Len(class_bases))]

\* _index_file as it would be if the caller's force = True were not honoured.
_index_file_unforced(d, p, entry, force, resolve, full_name_to_id) ==
    IndexFileBody(d, p, entry, FALSE, resolve, full_name_to_id)

_index_file(d, p, entry, force, resolve, full_name_to_id) ==
    IndexFileBody(d, p, entry, force, resolve, full_name_to_id)

\* The name maps _index_file can see after inserting the definitions.
PickChoices(d, p, entry) ==
    IF CanHash(entry) /\ ~AnalysisFails(entry)
    THEN LET d2 == IndexFileHead(d, p, entry)
         IN  NameMaps(insert_definitions_batch(d2, d2.seq.files - 1,
                                               AnalyzeDefinitions(ModuleOf[p], entry)),
                      d2.seq.files - 1)
    ELSE {<<>>}

\* Indexer._cleanup_deleted_files
RECURSIVE DeleteAll(_, _)
DeleteAll(d, paths) ==
    IF paths = {} THEN d
    ELSE LET p == CHOOSE x \in paths : TRUE
         IN  DeleteAll(delete_file_by_path(d, p), paths \ {p})
_cleanup_deleted_files(d, indexed_paths, dsk, force) ==
    LET gone == {p \in {f.path : f \in d.files} :
                    p \notin indexed_paths /\ (dsk[p] = Absent \/ force)}
    IN  [db |-> DeleteAll(d, gone), removed |-> Cardinality(gone)]


\* ------------------------------------------------------------------ state
VARIABLES
    disk,       \* the source tree: path -> what the path holds
    db,         \* the in-memory store of the running process
    snapshot,   \* the parquet directory
    run,        \* the index call in progress or last finished
    last,       \* the last store operation outside an index call
    resolve_refs,  \* Indexer.resolve_refs, fixed when the Indexer is built
    edits,      \* how often the source tree has changed
    exports,    \* how often the store has been exported
    call,       \* the last call of a function that only computes a result
    segments,   \* the parquet directory: the condition of each table's file
    exporting   \* the export in progress: the next table to write

vars == <<disk, db, snapshot, run, last, resolve_refs, edits, exports, call, segments,
          exporting>>

\* Indexer.index, lines 129-140
ZeroStats ==
    [files_indexed |-> 0, files_skipped |-> 0, files_removed |-> 0,
     definitions_added |-> 0, references_added |-> 0, imports_added |-> 0,
     decorators_added |-> 0, class_bases_added |-> 0, errors |-> <<>>,
     index_skipped |-> FALSE]

\* The rows one path owns, without ids.
FileView(d, p) ==
    LET fs == get_file(d, p)
        fids == {f.id : f \in fs}
        defs == {x \in d.definitions : x.file_id \in fids}
        dids == {x.id : x \in defs}
    IN  [hashes |-> {f.hash : f \in fs},
         definitions |-> {<<x.full_name, x.type, x.line>> : x \in defs},
         refs |-> {<<x.name, x.line, x.col>> : x \in {y \in d.refs : y.file_id \in fids}},
         imports |-> {<<x.module, x.line>> : x \in {y \in d.imports : y.file_id \in fids}},
         decorators |-> {<<x.name, x.line>> : x \in {y \in d.decorators : y.definition_id \in dids}},
         class_bases |-> {<<x.base_name, x.position>> : x \in {y \in d.class_bases : y.class_id \in dids}}]

NoPrev == [valid |-> FALSE, args |-> ScanAll, force |-> FALSE, raised |-> FALSE]
NoStep == [path |-> "", status |-> "none", before |-> FileView(EmptyDb, "")]
NoStaleness == [valid |-> FALSE, args |-> ScanAll, raised |-> FALSE, is_stale |-> FALSE,
          changed |-> <<>>, added |-> <<>>, removed |-> <<>>]
NoLast ==
    [op |-> "none", file_id |-> Null, def_ids |-> {}, path |-> "", status |-> "",
     force |-> FALSE, reset |-> FALSE]

NoCall == [fn |-> "none", args |-> <<>>, result |-> <<>>]

\* Database.export_to_parquet, line 568: the order the tables are written in.
ExportOrder ==
    <<"files", "definitions", "refs", "imports", "decorators", "class_bases", "calls">>
\* A table's parquet file is not there, is intact, cannot be read, or was
\* written by a version whose table had fewer columns.
SegmentStates == {"missing", "ok", "unreadable", "old_schema"}
NoSegments == [t \in Tables |-> "missing"]
AllWritten == [t \in Tables |-> "ok"]
\* No export is running; source are the tables the last export begun
\* writes, before the tables the export begun before it wrote.
NotExporting == [pos |-> 0, before |-> NoSnapshot, source |-> NoSnapshot]

IdleRun ==
    [pc |-> "idle", args |-> ScanAll, force |-> FALSE,
     files |-> <<>>, i |-> 1, indexed_paths |-> {}, stats |-> ZeroStats,
     raised |-> FALSE, post |-> FALSE, pre |-> EmptyDb, prev |-> NoPrev, step |-> NoStep,
     staleness |-> NoStaleness]

Init ==
    /\ disk \in {f \in [Paths -> DiskEntries] : \A p \in Paths : f[p] \in EntriesOf[p]}
    /\ resolve_refs \in BOOLEAN
    /\ edits = 0
    /\ exports = 0
    /\ db = EmptyDb
    /\ snapshot = NoSnapshot
    /\ run = IdleRun
    /\ last = NoLast
    /\ call = NoCall
    /\ segments = NoSegments
    /\ exporting = NotExporting

\* The process is between calls: not inside the index loop or an export,
\* and neither killed nor exited on a failed open.
Quiet ==
    /\ run.pc # "loop"
    /\ exporting.pos = 0
    /\ last.op # "killed"
    /\ last.status \in {"io_error", "schema_error"} => last.reset

\* -------------------------------------------------------- the environment
\* A file is created, edited, deleted or made unreadable.
WriteFile(p, entry) ==
    /\ Quiet
    /\ disk[p] # entry
    /\ edits < MaxEdits
    /\ edits' = edits + 1
    /\ disk' = [disk EXCEPT ![p] = entry]
    /\ run' = IdleRun
    /\ last' = [NoLast EXCEPT !.op = "write_file", !.path = p]
    /\ UNCHANGED <<db, snapshot, resolve_refs, exports, call, segments, exporting>>

\* ------------------------------------------------------ store operations
\* Database.delete_file_by_path, as the watch loop and the API call it.
DeleteFileByPath(p) ==
    /\ Quiet
    /\ get_file(db, p) # {}
    /\ LET f == CHOOSE x \in get_file(db, p) : TRUE
       IN  last' = [NoLast EXCEPT
                      !.op = "delete_file", !.file_id = f.id, !.path = p,
                      !.def_ids = {x.id : x \in {y \in db.definitions : y.file_id = f.id}}]
    /\ db' = delete_file_by_path(db, p)
    /\ run' = IdleRun
    /\ UNCHANGED <<disk, snapshot, resolve_refs, edits, exports, call, segments, exporting>>

\* Database.populate_parent_ids
PopulateParentIds ==
    /\ Quiet
    /\ \E par \in ParentChoices(db) : db' = populate_parent_ids(db, par)
    /\ db' # db
    /\ run' = IdleRun
    /\ last' = NoLast
    /\ UNCHANGED <<disk, snapshot, resolve_refs, edits, exports, call, segments, exporting>>

\* Database.build_call_graph
BuildCallGraph ==
    /\ Quiet
    /\ db.seq.calls + Cardinality(JoinedCallRefs(db)) - 1 <= MaxCallId
    /\ db.calls # {} \/ JoinedCallRefs(db) # {}
    /\ \E ch \in CallChoices(db) : db' = build_call_graph(db, ch)
    /\ run' = IdleRun
    /\ last' = [NoLast EXCEPT !.op = "build_call_graph"]
    /\ UNCHANGED <<disk, snapshot, resolve_refs, edits, exports, call, segments, exporting>>

\* Database.export_to_parquet
Export ==
    /\ Quiet
    /\ snapshot # export_to_parquet(db)
    /\ exports < MaxExports
    /\ exports' = exports + 1
    /\ snapshot' = export_to_parquet(db)
    /\ segments' = AllWritten
    /\ run' = IdleRun
    /\ last' = NoLast
    /\ UNCHANGED <<disk, db, resolve_refs, edits, call, exporting>>

\* JediDB.__init__, lines 48-53: a new process opens the snapshot if there
\* is one, else starts from an empty store.
Open ==
    /\ Quiet
    /\ db' = IF snapshot.exists THEN open_parquet(snapshot) ELSE EmptyDb
    /\ db' # db \/ last.op # "open"
    /\ run' = IdleRun
    /\ last' = [NoLast EXCEPT !.op = "open"]
    /\ UNCHANGED <<disk, snapshot, resolve_refs, edits, exports, call, segments, exporting>>

\* Indexer.index_single_file: _index_file inside Database.transaction.  An
\* exception rolls the rows back and is re-raised; whether the rolled-back
\* INSERT gives its sequence value back is left open.
IndexSingleFile(p) ==
    /\ Quiet
    /\ db.seq.files <= MaxFileId
    /\ \E full_name_to_id \in PickChoices(db, p, disk[p]) :
          LET res == _index_file(db, p, disk[p], TRUE, resolve_refs, full_name_to_id)
          IN  /\ IF res.stats.status = "indexed" THEN db' = res.db
                 ELSE db' \in {db, [db EXCEPT !.seq = res.db.seq]}
              /\ last' = NoLast
    /\ run' = IdleRun
    /\ UNCHANGED <<disk, snapshot, resolve_refs, edits, exports, call, segments, exporting>>

\* ------------------------------------------------------------ Indexer.index
\* Lines 123-154: discovery, the staleness short-circuit, and entry into the
\* loop.  An exception of check_staleness leaves index.
StartIndex(args, force) ==
    /\ Quiet
    /\ LET files_to_index == _discover_files(disk, args)
           staleness == check_staleness(db, disk, args)
           begun == [IdleRun EXCEPT !.args = args, !.force = force,
                                    !.staleness = IF force THEN NoStaleness
                                                  ELSE [staleness EXCEPT !.valid = TRUE,
                                                                         !.args = args],
                                    !.files = files_to_index, !.pre = db,
                                    !.prev = IF run.pc = "done"
                                             THEN [valid |-> TRUE, args |-> run.args,
                                                   force |-> run.force,
                                                   raised |-> run.raised]
                                             ELSE NoPrev]
       IN  /\ db.seq.files + Len(files_to_index) - 1 <= MaxFileId
           /\ run' = IF ~force /\ staleness.raised
                     THEN [begun EXCEPT !.pc = "done", !.raised = TRUE]
                     ELSE IF ~force /\ ~staleness.is_stale
                     THEN [begun EXCEPT !.pc = "done",
                                        !.stats.files_skipped = Len(files_to_index),
                                        !.stats.index_skipped = TRUE]
                     ELSE [begun EXCEPT !.pc = "loop"]
    /\ last' = NoLast
    /\ UNCHANGED <<disk, db, snapshot, resolve_refs, edits, exports, call, segments, exporting>>

\* Lines 156-176: one iteration of the loop over files_to_index.
IndexFileStep ==
    /\ run.pc = "loop"
    /\ run.i <= Len(run.files)
    /\ LET p == run.files[run.i]
       IN  \E full_name_to_id \in PickChoices(db, p, disk[p]) :
             LET res == _index_file(db, p, disk[p], TRUE, resolve_refs, full_name_to_id)
                 fs == res.stats
             IN  /\ db' = res.db
                 /\ run' = [run EXCEPT
                      !.i = @ + 1,
                      !.indexed_paths = @ \cup {p},
                      !.step = [path |-> p, status |-> fs.status, before |-> FileView(db, p)],
                      !.stats = IF fs.status = "indexed"
                                THEN [@ EXCEPT !.files_indexed = @ + 1,
                                               !.definitions_added = @ + fs.definitions,
                                               !.references_added = @ + fs.references,
                                               !.imports_added = @ + fs.imports,
                                               !.decorators_added = @ + fs.decorators,
                                               !.class_bases_added = @ + fs.class_bases]
                                ELSE IF fs.status = "unchanged"
                                THEN [@ EXCEPT !.files_skipped = @ + 1]
                                ELSE [@ EXCEPT !.errors = Append(@, [file |-> p, error |-> fs.status])]]
    /\ UNCHANGED <<disk, snapshot, last, resolve_refs, edits, exports, call, segments, exporting>>

\* Lines 178-200: cleanup, then the post-processing passes if anything was
\* indexed or removed.
FinishIndex ==
    /\ run.pc = "loop"
    /\ run.i > Len(run.files)
    /\ LET cl == _cleanup_deleted_files(db, run.indexed_paths, disk, TRUE)
           post == run.stats.files_indexed > 0 \/ cl.removed > 0
       IN  /\ (post /\ resolve_refs) =>
                  cl.db.seq.calls + Cardinality(JoinedCallRefs(cl.db)) - 1 <= MaxCallId
           /\ IF post
              THEN \E par \in ParentChoices(cl.db) :
                     LET d2 == populate_parent_ids(cl.db, par)
                     IN  IF resolve_refs
                         THEN \E ch \in CallChoices(d2) : db' = build_call_graph(d2, ch)
                         ELSE db' = d2
              ELSE db' = cl.db
           /\ run' = [run EXCEPT !.pc = "done", !.post = post,
                                 !.stats.files_removed = cl.removed]
    /\ UNCHANGED <<disk, snapshot, last, resolve_refs, edits, exports, call, segments, exporting>>

\* The indexer: the source tree changes; the index is checked, re-built
\* and has files deleted from it, all in one process.
Next ==
    \/ \E p \in Paths : \E entry \in EntriesOf[p] : WriteFile(p, entry)
    \/ \E p \in Paths : DeleteFileByPath(p)
    \/ \E args \in ArgChoices, force \in BOOLEAN : StartIndex(args, force)
    \/ IndexFileStep
    \/ FinishIndex

Spec == Init /\ [][Next]_vars

\* The store: with a library module and an application module on disk,
\* single files are indexed and deleted, the derived data is rebuilt, the
\* store is exported and re-opened.
InitStore ==
    /\ Init
    /\ disk = [p \in Paths |-> IF p = "a.py" THEN "lib" ELSE "app"]

NextStore ==
    \/ \E p \in Paths : IndexSingleFile(p)
    \/ \E p \in Paths : DeleteFileByPath(p)
    \/ PopulateParentIds
    \/ BuildCallGraph
    \/ Export
    \/ Open

SpecStore == InitStore /\ [][NextStore]_vars

\* The indexer on a tree whose application module defines a class inside
\* a nested function.
InitLocal ==
    /\ disk = [p \in Paths |-> IF p = "a.py" THEN "lib" ELSE "local"]
    /\ resolve_refs \in BOOLEAN
    /\ edits = 0
    /\ exports = 0
    /\ db = EmptyDb
    /\ snapshot = NoSnapshot
    /\ run = IdleRun
    /\ last = NoLast
    /\ call = NoCall
    /\ segments = NoSegments
    /\ exporting = NotExporting

SpecLocal == InitLocal /\ [][Next]_vars

\* ------------------------------------------------------------ the matcher
\* The paths and the file-name patterns the matcher is called with.
GlobDirs == {<<>>,
             <<"s", "r", "c", "/">>,
             <<"s", "r", "c", "/", "s", "u", "b", "/">>}
GlobNames == {<<"t", "e", "s", "t", "_", "a", ".", "p", "y">>,
              <<"t", "e", "s", "t", "_", "b", ".", "p", "y">>,
              <<"m", "y", "t", "e", "s", "t", "_", "a", ".", "p", "y">>,
              <<"a", ".", "p", "y">>,
              <<"a", "b", ".", "p", "y">>,
              <<"a", "_", "t", "e", "s", "t", ".", "p", "y">>}
GlobPaths == {dir \o name : dir \in GlobDirs, name \in GlobNames}
NamePatterns == {<<"t", "e", "s", "t", "_", "*", ".", "p", "y">>,
                 <<"*", ".", "p", "y">>,
                 <<"?", ".", "p", "y">>,
                 <<"*", "_", "t", "e", "s", "t", ".", "p", "y">>,
                 <<"a", ".", "p", "y">>,
                 <<"t", "e", "s", "t", "_", "?", ".", "p", "y">>,
                 <<"a", "*", ".", "p", "y">>}

\* utils.glob_match called with the pattern "**/" + P.
GlobMatch(path_str, P) ==
    /\ call' = [fn |-> "glob_match",
                args |-> [path_str |-> path_str, pattern |-> StarStarSlash \o P, tail |-> P],
                result |-> glob_match(path_str, StarStarSlash \o P)]
    /\ UNCHANGED <<disk, db, snapshot, run, last, resolve_refs, edits, exports, segments, exporting>>

InitGlob ==
    /\ Init
    /\ disk = [p \in Paths |-> Absent]
    /\ resolve_refs = FALSE

NextGlob == \E path_str \in GlobPaths, P \in NamePatterns : GlobMatch(path_str, P)

SpecGlob == InitGlob /\ [][NextGlob]_vars

\* ---------------------------------------------------------- discovery calls
\* A source tree with a tooling directory at the top and one below src/.
\* A tree is the set of the .py files it holds, each a path relative to
\* the project root.
TreeFiles == {<<"a", ".", "p", "y">>,
              <<"b", "u", "i", "l", "d", "/", "x", ".", "p", "y">>,
              <<"s", "r", "c", "/", "b", ".", "p", "y">>,
              <<"s", "r", "c", "/", "b", "u", "i", "l", "d", "/", "y", ".", "p", "y">>}
BuildDir == <<"b", "u", "i", "l", "d">>
BuildFile == <<"b", "u", "i", "l", "d", "/", "x", ".", "p", "y">>
SrcDir == <<"s", "r", "c">>

\* The files below a directory and their paths relative to it; the project
\* root is the empty path.
Below(tree, dir) ==
    IF dir = <<>> THEN tree ELSE {f \in tree : StartsWith(f, dir \o <<"/">>)}
RelativeTo(f, dir) == IF dir = <<>> THEN f ELSE SubSeq(f, Len(dir) + 2, Len(f))

\* utils.discover_python_files, lines 270-272: rglob("*.py") under root,
\* each path matched relative to root.
ScanUnder(tree, root, include, all_exclude) ==
    {f \in Below(tree, root) : match_glob_patterns(RelativeTo(f, root), include, all_exclude)}

\* The scan as it would be with the user's exclude patterns only.
discover_under_without_defaults(tree, root, include, exclude) ==
    ScanUnder(tree, root, expand_patterns(include), expand_patterns(exclude))

\* utils.discover_python_files on a tree; the result as a set.
discover_under(tree, root, include, exclude) ==
    ScanUnder(tree, root, expand_patterns(include), expand_patterns(exclude) \o default_exclude)

\* Indexer._discover_files on a tree: an explicit path that is a .py file
\* is appended as it is, an explicit directory is scanned.
discover_files_in(tree, paths, include, exclude) ==
    IF paths # <<>>
    THEN UNION {IF paths[k] \in tree /\ EndsWith(paths[k], DotPy) THEN {paths[k]}
                ELSE IF Below(tree, paths[k]) # {}
                     THEN discover_under(tree, paths[k], include, exclude)
                ELSE {} : k \in 1..Len(paths)}
    ELSE discover_under(tree, <<>>, include, exclude)

DiscoverPaths == {<<>>, <<BuildFile>>, <<BuildDir>>, <<SrcDir>>}
DiscoverIncludes == {<<>>, <<BuildDir \o <<"/">> >>}
DiscoverExcludes == {<<>>, <<SrcDir \o <<"/">> >>}

\* Indexer._discover_files called on some tree with some arguments.
DiscoverFiles(tree, paths, include, exclude) ==
    /\ call' = [fn |-> "_discover_files",
                args |-> [tree |-> tree, paths |-> paths, include |-> include,
                          exclude |-> exclude],
                result |-> discover_files_in(tree, paths, include, exclude)]
    /\ UNCHANGED <<disk, db, snapshot, run, last, resolve_refs, edits, exports, segments, exporting>>

NextDiscover ==
    \E tree \in SUBSET TreeFiles, paths \in DiscoverPaths,
       include \in DiscoverIncludes, exclude \in DiscoverExcludes :
        DiscoverFiles(tree, paths, include, exclude)

SpecDiscover == InitGlob /\ [][NextDiscover]_vars

\* ------------------------------------------------------ the status check
\* Indexer.check_staleness, lines 70-72: what the call does to the store.
\* The one statement it executes is SELECT path, hash FROM files.
\* The call as it would be if it dropped the rows it reports as removed.
check_staleness_store_with_cleanup(d, dsk, args) ==
    _cleanup_deleted_files(d, Range(_discover_files(dsk, args)), dsk, TRUE).db
check_staleness_store(d, dsk, args) == d

\* Indexer.check_staleness called on its own, as a status report does.
CheckStaleness(args) ==
    /\ Quiet
    /\ call' = [fn |-> "check_staleness",
                args |-> [args |-> args, before |-> db],
                result |-> check_staleness(db, disk, args)]
    /\ db' = check_staleness_store(db, disk, args)
    /\ last' = [NoLast EXCEPT !.op = "check_staleness"]
    /\ run' = IdleRun
    /\ UNCHANGED <<disk, snapshot, resolve_refs, edits, exports, segments, exporting>>

\* Status reports between edits of the tree, single-file indexing and
\* deletions.
NextCheck ==
    \/ \E p \in Paths : \E entry \in EntriesOf[p] : WriteFile(p, entry)
    \/ \E p \in Paths : IndexSingleFile(p)
    \/ \E p \in Paths : DeleteFileByPath(p)
    \/ \E args \in ArgChoices : CheckStaleness(args)

SpecCheck == Init /\ [][NextCheck]_vars

\* ------------------------------------------------- the parquet directory
\* init.sql: the tables the init script loads from their parquet files,
\* every table but class_bases.
RequiredTables == Tables \ {"class_bases"}
\* init.sql: read_parquet of a file that is not there or cannot be read
\* raises an I/O error.
InitSqlFails(seg) == \E t \in RequiredTables : seg[t] \in {"missing", "unreadable"}

\* Database.open_parquet, lines 606-634: how the call ends.  class_bases is
\* read only if its file exists; the index on calls(caller_full_name,
\* call_order) cannot be created on a table written without that column.
OpenParquetStatus(seg) ==
    IF InitSqlFails(seg) THEN "io_error"
    ELSE IF seg["class_bases"] = "unreadable" THEN "io_error"
    ELSE IF seg["calls"] = "old_schema" THEN "schema_error"
    ELSE "ok"

\* Database.open_parquet on a directory, lines 610-624: class_bases is an
\* empty table when its file is not there.
open_parquet_dir(snap, seg) ==
    open_parquet([snap EXCEPT !.class_bases = IF seg["class_bases"] = "missing" THEN {} ELSE @])

\* JediDB.__init__, lines 48-53: open_parquet if definitions.parquet
\* exists, else an empty in-memory store.
JediDB_init(snap, seg) ==
    IF seg["definitions"] # "missing"
    THEN [status |-> OpenParquetStatus(seg),
          db |-> IF OpenParquetStatus(seg) = "ok" THEN open_parquet_dir(snap, seg) ELSE EmptyDb]
    ELSE [status |-> "ok", db |-> EmptyDb]

\* One parquet file of a complete directory is lost, becomes unreadable,
\* or the directory is one an older version wrote (calls without
\* call_order, no class_bases file).
DamageSegment(t, kind) ==
    /\ segments = AllWritten
    /\ exporting.pos = 0
    /\ kind = "old_schema" => t = "calls"
    /\ segments' = [segments EXCEPT ![t] = kind]
    /\ UNCHANGED <<disk, db, snapshot, run, last, resolve_refs, edits, exports, call, exporting>>

\* Another process opens the directory to read: JediDB.__init__.
ReaderOpen ==
    /\ call' = [fn |-> "open",
                args |-> [segments |-> segments, before |-> exporting.before,
                          source |-> exporting.source],
                result |-> JediDB_init(snapshot, segments)]
    /\ UNCHANGED <<disk, db, snapshot, run, last, resolve_refs, edits, exports, segments,
                   exporting>>

\* cli index_cmd, lines 112-129: a new process opens the store; when that
\* raises and --force is given the directory is removed and the open is
\* tried again, else the command exits.
IndexCmdOpen(force) ==
    /\ run.pc # "loop"
    /\ exporting.pos = 0
    /\ LET res == JediDB_init(snapshot, segments)
       IN  IF res.status = "ok"
           THEN /\ db' = res.db
                /\ last' = [NoLast EXCEPT !.op = "open", !.status = "ok", !.force = force]
                /\ UNCHANGED <<snapshot, segments>>
           ELSE IF force
           THEN /\ snapshot' = NoSnapshot
                /\ segments' = NoSegments
                /\ db' = JediDB_init(NoSnapshot, NoSegments).db
                /\ last' = [NoLast EXCEPT !.op = "open", !.status = res.status,
                                          !.force = force, !.reset = TRUE]
           ELSE /\ db' = EmptyDb
                /\ last' = [NoLast EXCEPT !.op = "open", !.status = res.status,
                                          !.force = force]
                /\ UNCHANGED <<snapshot, segments>>
    /\ last' # last \/ db' # db
    /\ run' = IdleRun
    /\ UNCHANGED <<disk, resolve_refs, edits, exports, call, exporting>>

\* The store is indexed, exported and opened while parquet files get lost
\* or damaged.
NextOpen ==
    \/ \E p \in Paths : IndexSingleFile(p)
    \/ Export
    \/ \E t \in Tables, kind \in SegmentStates \ {"ok"} : DamageSegment(t, kind)
    \/ ReaderOpen
    \/ \E force \in BOOLEAN : IndexCmdOpen(force)

SpecOpen == InitStore /\ [][NextOpen]_vars

\* ------------------------------------------------------- lookup by name
\* Definition rows the analyzer produces for
\*   a.py:       2  def helper():            test_b.py:  1  from a import helper
\*               3      return 42                        2  class User(BaseModel):
\*                                                       5  User = wrap(User)
\*                                                       6  import helper
\* A name that Jedi gives no qualified name keeps its bare name as
\* full_name (analyzer.py 323-326); "import helper" binds the module helper.
LookupRows ==
    << [file_id |-> 1, row |-> MkDef(<<"a", "helper">>, "function", 2, 3)],
       [file_id |-> 2, row |-> MkDef(<<"a", "helper">>, "function", 1, 1)],
       [file_id |-> 2, row |-> MkDef(<<"test_b", "User">>, "class", 2, 4)],
       [file_id |-> 2, row |-> MkDef(<<"test_b", "User">>, "variable", 5, 5)],
       [file_id |-> 2, row |-> MkDef(<<"helper">>, "module", 6, 6)] >>
LookupNames == {<<"helper">>, <<"a", "helper">>, <<"User">>, <<"test_b", "User">>}

\* A store that holds the two files and some of these rows.
LookupDb(keep) ==
    [EmptyDb EXCEPT
       !.files = {[id |-> 1, path |-> "a.py", hash |-> HashDigest["lib"]],
                  [id |-> 2, path |-> "test_b.py", hash |-> HashDigest["app"]]},
       !.definitions =
          {[id |-> k, file_id |-> LookupRows[k].file_id,
            full_name |-> LookupRows[k].row.full_name, type |-> LookupRows[k].row.type,
            line |-> LookupRows[k].row.line, end_line |-> LookupRows[k].row.end_line,
            parent_id |-> Null, parent_full_name |-> LookupRows[k].row.parent_full_name]
           : k \in keep},
       !.seq = [@ EXCEPT !["files"] = Cardinality(Paths) + 1,
                         !["definitions"] = Len(LookupRows) + 1]]

\* definitions.name: the last component of the qualified name.
NameOf(x) == x.full_name[Len(x.full_name)]

\* SearchEngine.get_definition, lines 293-303: the rows of the WHERE
\* clause, the two ORDER BY keys, and the rows LIMIT 1 may return.
LookupMatches(d, name) ==
    {x \in d.definitions :
        /\ \E f \in d.files : f.id = x.file_id
        /\ (x.full_name = name \/ <<NameOf(x)>> = name)}
ExactRank(x, name) == IF x.full_name = name THEN 0 ELSE 1
BodySpan(x) == (IF x.end_line = Null THEN x.line ELSE x.end_line) - x.line
ComesFirst(x, y, name) ==
    \/ ExactRank(x, name) < ExactRank(y, name)
    \/ ExactRank(x, name) = ExactRank(y, name) /\ BodySpan(x) >= BodySpan(y)
get_definition(d, name) ==
    {x \in LookupMatches(d, name) : \A y \in LookupMatches(d, name) : ComesFirst(x, y, name)}

\* SearchEngine.get_definition called with a name or a qualified name;
\* the result is the row returned, or nothing for None.
GetDefinition(name) ==
    /\ \E found \in (IF get_definition(db, name) = {} THEN {{}}
                      ELSE {{x} : x \in get_definition(db, name)}) :
          call' = [fn |-> "get_definition", args |-> [name |-> name], result |-> found]
    /\ UNCHANGED <<disk, db, snapshot, run, last, resolve_refs, edits, exports, segments,
                   exporting>>

InitLookup ==
    /\ disk = [p \in Paths |-> IF p = "a.py" THEN "lib" ELSE "app"]
    /\ resolve_refs = FALSE
    /\ edits = 0
    /\ exports = 0
    /\ db \in {LookupDb(keep) : keep \in SUBSET (1..Len(LookupRows))}
    /\ snapshot = NoSnapshot
    /\ run = IdleRun
    /\ last = NoLast
    /\ call = NoCall
    /\ segments = NoSegments
    /\ exporting = NotExporting

NextLookup == \E name \in LookupNames : GetDefinition(name)

SpecLookup == InitLookup /\ [][NextLookup]_vars

\* ------------------------------------------------------ call order, depth
\* The ast.Call nodes of one expression statement on a line; a node is the
\* position of the called name and the calls among its arguments:
\*   plain    f()          pair     f(g(), h())
\*   nested   f(g())       chain    f(g(h()))
CallShape(line, kind) ==
    LET leaf(col) == [kind |-> "Call", at |-> <<line, col>>, args |-> <<>>]
    IN  IF kind = "plain" THEN leaf(0)
        ELSE IF kind = "nested"
        THEN [kind |-> "Call", at |-> <<line, 0>>, args |-> <<leaf(2)>>]
        ELSE IF kind = "pair"
        THEN [kind |-> "Call", at |-> <<line, 0>>, args |-> <<leaf(2), leaf(7)>>]
        ELSE [kind |-> "Call", at |-> <<line, 0>>,
              args |-> <<[kind |-> "Call", at |-> <<line, 2>>, args |-> <<leaf(4)>>]>>]

\* ast.parse(source): modules of up to MaxFunctions functions whose bodies
\* are up to MaxStatements expression statements, one per line.
Modules ==
    LET kinds == {"plain", "nested", "pair", "chain"}
        shapes == UNION {[1..n -> kinds] : n \in 1..MaxStatements}
        def(k, sh) == [kind |-> "FunctionDef",
                       args |-> [j \in 1..Len(sh) |-> CallShape(10 * k + j, sh[j])]]
    IN  UNION {{[k \in 1..n |-> def(k, b[k])] : b \in [1..n -> shapes]}
               : n \in 1..MaxFunctions}

\* CallOrderVisitor.visit_Call, lines 26-74, for a called plain name, and
\* NodeVisitor.generic_visit: the child nodes in source order, a Call
\* through visit_Call and any other node through generic_visit.
RECURSIVE visit_Call(_, _), generic_visit(_, _)
visit_Call(node, self) ==
    LET entered == [self EXCEPT !.call_depth = @ + 1]
        current_depth == entered.call_depth
        visited == generic_visit(node.args, entered)
        counted == [visited EXCEPT !.call_counter = @ + 1]
    IN  [counted EXCEPT
           !.call_info = (node.at :> <<counted.call_counter, current_depth>>) @@ @,
           !.call_depth = @ - 1]
generic_visit(children, self) ==
    IF children = <<>> THEN self
    ELSE LET node == Head(children)
         IN  generic_visit(Tail(children),
                           IF node.kind = "Call" THEN visit_Call(node, self)
                           ELSE generic_visit(node.args, self))

\* Analyzer._extract_references, lines 384-390: a new visitor walks the
\* tree of the file; call_info maps (line, col) to (order, depth).
CallOrder(tree) ==
    /\ call' = [fn |-> "call_order",
                args |-> [tree |-> tree],
                result |-> generic_visit(tree, [call_info |-> <<>>, call_counter |-> 0,
                                                call_depth |-> 0]).call_info]
    /\ UNCHANGED <<disk, db, snapshot, run, last, resolve_refs, edits, exports, segments,
                   exporting>>

NextCalls == \E tree \in Modules : CallOrder(tree)

SpecCalls == InitGlob /\ [][NextCalls]_vars

\* ------------------------------------------------- export, step by step
\* Database.export_to_parquet, lines 565-573: the export begins; nothing is
\* written yet.  source are the tables of the store that the COPY
\* statements will write, before those of the export before this one.
BeginExport ==
    /\ Quiet
    /\ snapshot # export_to_parquet(db)
    /\ exports < MaxRewrites
    /\ exports' = exports + 1
    /\ exporting' = [pos |-> 1, before |-> exporting.source, source |-> export_to_parquet(db)]
    /\ run' = IdleRun
    /\ last' = [NoLast EXCEPT !.op = "export"]
    /\ UNCHANGED <<disk, db, snapshot, resolve_refs, edits, call, segments>>

\* Database.export_to_parquet, lines 569-573: one COPY statement writes one
\* table to its parquet file, over the file of the export before.
ExportStep ==
    /\ exporting.pos \in 1..Len(ExportOrder)
    /\ LET table == ExportOrder[exporting.pos]
       IN  /\ snapshot' = [snapshot EXCEPT ![table] = exporting.source[table],
                                           !.exists = TRUE]
           /\ segments' = [segments EXCEPT ![table] = "ok"]
    /\ exporting' = [exporting EXCEPT !.pos = IF @ = Len(ExportOrder) THEN 0 ELSE @ + 1]
    /\ UNCHANGED <<disk, db, run, last, resolve_refs, edits, exports, call>>

\* The exporting process is killed between two COPY statements; its
\* in-memory store is gone, the files written so far stay.
KillWriter ==
    /\ exporting.pos \in 2..Len(ExportOrder)
    /\ exporting' = [exporting EXCEPT !.pos = 0]
    /\ db' = EmptyDb
    /\ run' = IdleRun
    /\ last' = [NoLast EXCEPT !.op = "killed"]
    /\ UNCHANGED <<disk, snapshot, resolve_refs, edits, exports, call, segments>>

\* cli index_cmd, lines 112-129, without --force: the next command after
\* a writer was killed.
IndexCmdAfterKill ==
    /\ last.op = "killed"
    /\ IndexCmdOpen(FALSE)

\* Indexer.index_single_file in a writer that has an export left to begin.
IndexForExport(p) ==
    /\ exports < MaxRewrites
    /\ IndexSingleFile(p)

\* A writer indexes single files and exports table by table, and may be
\* killed while it exports; readers open the directory at any moment.
NextExport ==
    \/ \E p \in Paths : IndexForExport(p)
    \/ BeginExport
    \/ ExportStep
    \/ KillWriter
    \/ IndexCmdAfterKill
    \/ ReaderOpen

SpecExport == InitStore /\ [][NextExport]_vars

\* ------------------------------------------------------------ watch mode
\* Indexer.index(paths=[p]) for a file p that is on disk, in one piece:
\* the stores the call can leave behind, whether it raised, and whether
\* JediDB.index_files exports afterwards (files_indexed > 0 or
\* files_removed > 0).
IndexOneOutcomes(d, dsk, p, resolve) ==
    LET args == [paths |-> <<p>>, include |-> <<>>, exclude |-> <<>>]
        st == check_staleness(d, dsk, args)
        After(m) ==
            LET res == _index_file(d, p, dsk[p], TRUE, resolve, m)
                cl == _cleanup_deleted_files(res.db, {p}, dsk, TRUE)
            IN  IF res.stats.status = "indexed" \/ cl.removed > 0
                THEN UNION {LET d2 == populate_parent_ids(cl.db, par)
                            IN  IF resolve
                                THEN {[db |-> build_call_graph(d2, ch), raised |-> FALSE,
                                       export |-> TRUE] : ch \in CallChoices(d2)}
                                ELSE {[db |-> d2, raised |-> FALSE, export |-> TRUE]}
                            : par \in ParentChoices(cl.db)}
                ELSE {[db |-> cl.db, raised |-> FALSE, export |-> FALSE]}
    IN  IF st.raised THEN {[db |-> d, raised |-> TRUE, export |-> FALSE]}
        ELSE IF ~st.is_stale THEN {[db |-> d, raised |-> FALSE, export |-> FALSE]}
        ELSE UNION {After(m) : m \in PickChoices(d, p, dsk[p])}

\* cli index_cmd, lines 246-274: one batch of the watch loop.  A fresh
\* JediDB is opened; changed files go through index_files (which exports
\* when something was indexed or removed); deleted files are removed with
\* delete_file_by_path and the store is exported; an exception ends the
\* batch.  The batch is the event the last edit of the tree raised.
WatchBatch(changed, deleted) ==
    /\ run.pc # "loop"
    /\ exporting.pos = 0
    /\ last.op = "write_file"
    /\ Len(changed) + Len(deleted) = 1
    /\ \A k \in 1..Len(changed) : changed[k] = last.path /\ disk[changed[k]] # Absent
    /\ \A k \in 1..Len(deleted) : deleted[k] = last.path /\ disk[deleted[k]] = Absent
    /\ LET opened == JediDB_init(snapshot, segments)
           outcomes == IF changed # <<>>
                       THEN IndexOneOutcomes(opened.db, disk, changed[1], resolve_refs)
                       ELSE {[db |-> opened.db, raised |-> FALSE, export |-> FALSE]}
       IN  IF opened.status # "ok"
           THEN /\ db' = EmptyDb
                /\ last' = [NoLast EXCEPT !.op = "watch_batch", !.status = opened.status]
                /\ UNCHANGED <<snapshot, segments>>
           ELSE /\ opened.db.seq.files <= MaxFileId
                /\ \E out \in outcomes :
                     LET d2 == IF out.raised THEN out.db
                               ELSE DeleteAll(out.db, Range(deleted))
                         exported == ~out.raised /\ (out.export \/ deleted # <<>>)
                     IN  /\ d2.seq.calls <= MaxCallId + 1
                         /\ db' = d2
                         /\ snapshot' = IF exported THEN export_to_parquet(d2) ELSE snapshot
                         /\ segments' = IF exported THEN AllWritten ELSE segments
                         /\ last' = [NoLast EXCEPT
                                       !.op = "watch_batch",
                                       !.status = IF out.raised THEN "index_error" ELSE "ok",
                                       !.path = last.path,
                                       !.def_ids = {x.id : x \in {y \in opened.db.definitions :
                                                       y.file_id \in {f.id : f \in get_file(opened.db, last.path)}}}]
    /\ run' = IdleRun
    /\ UNCHANGED <<disk, resolve_refs, edits, exports, call, exporting>>

\* JediDB.index_files, lines 83-85: the export after an index run in which
\* a file was indexed or removed.
ExportAfterIndex ==
    /\ run.pc = "done" /\ ~run.raised
    /\ run.stats.files_indexed > 0 \/ run.stats.files_removed > 0
    /\ snapshot # export_to_parquet(db)
    /\ snapshot' = export_to_parquet(db)
    /\ segments' = AllWritten
    /\ UNCHANGED <<disk, db, run, last, resolve_refs, edits, exports, call, exporting>>

\* cli index_cmd, lines 112-129: the command is started on a tree
\* that has not been edited since.
WatchCmdOpen(force) ==
    /\ last.op = "none"
    /\ edits = 0
    /\ IndexCmdOpen(force)

\* cli index_cmd, lines 112-181: the index run of a command that has just
\* opened the store.
IndexCmdRun(args, force) ==
    /\ last.op = "open"
    /\ StartIndex(args, force)

\* jedidb index --watch: the command opens the store, indexes and exports;
\* then the tree is edited and the watch loop handles the event.
NextWatch ==
    \/ \E force \in BOOLEAN : WatchCmdOpen(force)
    \/ \E args \in ArgChoices, force \in BOOLEAN : IndexCmdRun(args, force)
    \/ IndexFileStep
    \/ FinishIndex
    \/ ExportAfterIndex
    \/ \E p \in Paths : \E entry \in EntriesOf[p] : WriteFile(p, entry)
    \/ \E p \in Paths : WatchBatch(<<p>>, <<>>) \/ WatchBatch(<<>>, <<p>>)

SpecWatch == InitStore /\ [][NextWatch]_vars

\* ================================================================ properties
RowCounts(d) == [t \in Tables |-> Cardinality(d[t])]

\* The index call has returned its statistics.
Returned == run.pc = "done" /\ ~run.raised

\* The finished call is not forced and follows a returned, not forced call
\* with the same arguments; nothing touched the disk or the store in between.
SecondRun ==
    /\ Returned /\ ~run.force
    /\ run.prev.valid /\ ~run.prev.force /\ ~run.prev.raised
    /\ run.prev.args = run.args

\* C1: a not forced index run that directly follows a not forced run with
\* the same arguments, with no file changed in between, is a no-op: it
\* reports files_indexed = 0 and files_skipped = the number of discovered
\* files, and leaves the row count of each of the seven tables as it was.
C1_SecondRunIsNoOp ==
    SecondRun =>
        /\ run.stats.files_indexed = 0
        /\ run.stats.files_skipped = Len(run.files)
        /\ RowCounts(db) = RowCounts(run.pre)

\* The rows that still point at a deleted file or at one of its definitions.
Dangling(d, file_id, def_ids) ==
    [files |-> {x \in d.files : x.id = file_id},
     definitions |-> {x \in d.definitions : x.file_id = file_id},
     refs |-> {x \in d.refs : x.file_id = file_id},
     imports |-> {x \in d.imports : x.file_id = file_id},
     calls |-> {x \in d.calls : x.file_id = file_id},
     decorators |-> {x \in d.decorators : x.definition_id \in def_ids},
     class_bases |-> {x \in d.class_bases : x.class_id \in def_ids}]

\* C2: after delete_file(F) or delete_file_by_path of F's path, the File row
\* is gone, no definitions, refs, imports or calls row has file_id = F, and
\* no decorators or class_bases row is owned by a definition that was F's.
C2_DeleteFileCascades ==
    last.op = "delete_file" =>
        \A t \in Tables : Dangling(db, last.file_id, last.def_ids)[t] = {}

\* A check_staleness result that was returned, the store it looked at and
\* the files it discovered.
Checked == run.staleness.valid /\ ~run.staleness.raised
CheckedFiles == Range(_discover_files(disk, run.staleness.args))
StoredHashes(d, p) == {f.hash : f \in get_file(d, p)}

\* C3: check_staleness returns three pairwise disjoint lists; a discovered
\* file whose current hash differs from its stored hash is in changed, a
\* discovered file with no File row is in added, an indexed file that is no
\* longer on disk is in removed; is_stale is true exactly when one of the
\* three lists is not empty.
C3_StalenessLists ==
    Checked =>
        LET st == run.staleness
            changed == Range(st.changed)
            added == Range(st.added)
            removed == Range(st.removed)
        IN  /\ changed \cap added = {}
            /\ changed \cap removed = {}
            /\ added \cap removed = {}
            /\ \A p \in CheckedFiles :
                  /\ (StoredHashes(run.pre, p) # {}
                        /\ compute_file_hash(disk[p]) \notin StoredHashes(run.pre, p))
                     => p \in changed
                  /\ StoredHashes(run.pre, p) = {} => p \in added
            /\ \A f \in run.pre.files : disk[f.path] = Absent => f.path \in removed
            /\ st.is_stale <=> (changed \cup added \cup removed # {})

\* A returned check that reports a changed file together with a new one.
C3_Witness ==
    /\ Checked
    /\ run.staleness.changed # <<>>
    /\ run.staleness.added # <<>>

\* The function and class definitions of a reference's file around its line.
Around(d, r) ==
    {dd \in d.definitions : /\ dd.file_id = r.file_id
                            /\ dd.type \in {"function", "class"}
                            /\ dd.line <= r.line /\ r.line <= EndOr(dd)}
Smallest(S) == {dd \in S : \A e \in S : EndOr(dd) - dd.line <= EndOr(e) - e.line}
CallsOf(d, r) ==
    {c \in d.calls : c.file_id = r.file_id /\ c.line = r.line /\ c.col = r.col}
CallRefs(d) == {r \in d.refs : r.is_call}
Rebuilt == last.op = "build_call_graph"

\* C4: after build_call_graph every call reference that lies inside a
\* function or class of its file has exactly one Call row (same file, line
\* and column), whose caller_id is a function/class definition of smallest
\* range around the reference's line; a call reference outside every
\* function and class has no Call row.
C4_InnermostCaller ==
    Rebuilt =>
        \A r \in CallRefs(db) :
            IF Around(db, r) = {} THEN CallsOf(db, r) = {}
            ELSE /\ Cardinality(CallsOf(db, r)) = 1
                 /\ \A c \in CallsOf(db, r) :
                       c.caller_id \in {dd.id : dd \in Smallest(Around(db, r))}

\* A rebuilt call graph with a call inside nested scopes.
C4_Witness ==
    /\ Rebuilt
    /\ \E r \in CallRefs(db) : Cardinality(Around(db, r)) > 1 /\ CallsOf(db, r) # {}

\* C4 as stated: every call reference has exactly one Call row.
C4_EveryCallHasARow ==
    Rebuilt =>
        \A r \in CallRefs(db) :
            /\ Cardinality(CallsOf(db, r)) = 1
            /\ \A c \in CallsOf(db, r) :
                  c.caller_id \in {dd.id : dd \in Smallest(Around(db, r))}

\* C5: after export_to_parquet and open_parquet of that snapshot, in each of
\* the seven tables the id the next inserted row gets is greater than every
\* id in the snapshot.
C5_NextIdAboveSnapshot ==
    (last.op = "open" /\ snapshot.exists) =>
        \A t \in Tables : \A x \in snapshot[t] : db.seq[t] > x.id

\* A re-opened snapshot whose ids have gaps.
C5_Witness ==
    /\ last.op = "open" /\ snapshot.exists
    /\ \E t \in Tables : snapshot[t] # {} /\ MaxId(snapshot[t]) > Cardinality(snapshot[t])

\* The finished call went through the loop and the cleanup.
Reindexed == Returned /\ ~run.stats.index_skipped
Discovered == Range(run.files)
LiveIds(d) == {dd.id : dd \in d.definitions}

\* C6: after an index run with reference resolution in which a file was
\* indexed or removed, every Call row's caller_id is the id of a live
\* definition and its callee_id is null or the id of a live definition
\* whose full_name is the row's callee_full_name.
C6_CallsReferenceLiveDefinitions ==
    (Reindexed /\ resolve_refs
       /\ (run.stats.files_indexed > 0 \/ run.stats.files_removed > 0)) =>
        \A c \in db.calls :
            /\ c.caller_id \in LiveIds(db)
            /\ \/ c.callee_id = Null
               \/ \E dd \in db.definitions :
                     dd.id = c.callee_id /\ dd.full_name = c.callee_full_name

\* A run that removed a file while the store held a resolved Call row, and
\* that left a call graph behind.
C6_Witness ==
    /\ Reindexed /\ resolve_refs
    /\ run.stats.files_removed > 0
    /\ \E c \in run.pre.calls : c.callee_id # Null
    /\ db.calls # {}

C8_FileStepAtomic ==
    (run.pc = "loop" /\ run.step.status \in {"hash_error", "analysis_error"}) =>
        FileView(db, run.step.path) = run.step.before

\* One error entry per discovered file that cannot be hashed or analyzed.
ErrorsFor(p) == {k \in 1..Len(run.stats.errors) : run.stats.errors[k].file = p}
Fails(p) == ~CanHash(disk[p]) \/ AnalysisFails(disk[p])

\* C9: when hashing, reading or analyzing a discovered file fails during
\* Indexer.index, forced or not, index returns its statistics instead of
\* raising, the failure is one {file, error} entry of stats.errors, and
\* every other discovered file is still processed.
C9_FailuresAreRecorded ==
    run.pc = "done" =>
        /\ ~run.raised
        /\ ~run.stats.index_skipped =>
              /\ run.indexed_paths = Discovered
              /\ \A p \in Discovered :
                    Cardinality(ErrorsFor(p)) = IF Fails(p) THEN 1 ELSE 0

\* The File rows the cleanup of the finished run removed.
CleanedUp == {f \in run.pre.files : f.path \notin Discovered}
DefIdsOf(d, file_id) == {x.id : x \in {y \in d.definitions : y.file_id = file_id}}

\* C10: after an index run that is not skipped every File row's path is a
\* discovered path; the rows of files that are gone from disk or newly
\* excluded are removed with all their dependents; files_removed is the
\* number of File rows the cleanup removed.
C10_CleanupRemovesOutOfScope ==
    Reindexed =>
        /\ {f.path : f \in db.files} \subseteq Discovered
        /\ run.stats.files_removed = Cardinality(CleanedUp)
        /\ \A f \in CleanedUp : \A t \in Tables :
              Dangling(db, f.id, DefIdsOf(run.pre, f.id))[t] = {}

\* C11: in every reachable state of the store a Definition's parent_id is
\* null or the id of a live Definition of the same file whose full_name is
\* the child's parent_full_name.
C11_ParentIsSameFileNamedParent ==
    \A x \in db.definitions :
        \/ x.parent_id = Null
        \/ \E y \in db.definitions :
              /\ y.id = x.parent_id
              /\ y.file_id = x.file_id
              /\ y.full_name = x.parent_full_name

\* A re-opened store that holds a linked child next to an unlinked one.
C11_Witness ==
    /\ last.op = "open"
    /\ \E x \in db.definitions : x.parent_id # Null
    /\ \E x \in db.definitions : x.parent_full_name # NoName /\ x.parent_id = Null

\* The definitions of the file the last loop step indexed, and the
\* class_bases rows linked to one of them.
StepDefs == {x \in db.definitions : x.file_id \in {f.id : f \in get_file(db, run.step.path)}}
StepClassBases == {cb \in db.class_bases : cb.class_id \in {x.id : x \in StepDefs}}

\* C12: after a file is indexed every ClassBase row of that file has as
\* class_id the id of a definition of type class (never a non-class
\* definition with the same full_name), and the rows of one class carry
\* the positions 0, 1, 2, ... without gaps.
C12_ClassBasesPointAtClasses ==
    (run.pc = "loop" /\ run.step.status = "indexed") =>
        /\ \A cb \in StepClassBases :
              \E x \in StepDefs : x.id = cb.class_id /\ x.type = "class"
        /\ \A x \in StepDefs :
              LET mine == {cb \in StepClassBases : cb.class_id = x.id}
              IN  {cb.position : cb \in mine} = 0..(Cardinality(mine) - 1)

\* The part of a path after its last separator.
RECURSIVE LastSegment(_)
LastSegment(path_str) ==
    IF Contains(path_str, "/")
    THEN LastSegment(Tail(path_str))
    ELSE path_str

\* File-name matching: "*" stands for zero or more characters other than
\* the separator, "?" for exactly one, any other character for itself.
RECURSIVE NameMatches(_, _)
NameMatches(P, name) ==
    IF P = <<>> THEN name = <<>>
    ELSE IF Head(P) = "*"
         THEN \E k \in 0..Len(name) :
                 /\ \A j \in 1..k : name[j] # "/"
                 /\ NameMatches(Tail(P), SubSeq(name, k + 1, Len(name)))
    ELSE IF Head(P) = "?"
         THEN name # <<>> /\ Head(name) # "/" /\ NameMatches(Tail(P), Tail(name))
    ELSE name # <<>> /\ Head(name) = Head(P) /\ NameMatches(Tail(P), Tail(name))

\* C13: for a pattern "**/P" where P has no separator, glob_match(path,
\* "**/P") is true exactly when the last segment of path matches P.
C13_StarStarMatchesWholeSegments ==
    call.fn = "glob_match" =>
        (call.result <=> NameMatches(call.args.tail, LastSegment(call.args.path_str)))

\* The directory names of the built-in exclude patterns ("**/NAME/**").
BuiltinDirPatterns ==
    {SubSeq(default_exclude[k], 4, Len(default_exclude[k]) - 3) : k \in 1..Len(default_exclude)}
\* The directories a path goes through.
RECURSIVE DirsOf(_, _)
DirsOf(f, seg) ==
    IF f = <<>> THEN {}
    ELSE IF Head(f) = "/" THEN {seg} \cup DirsOf(Tail(f), <<>>)
    ELSE DirsOf(Tail(f), Append(seg, Head(f)))
UnderExcludedDir(f) ==
    \E dir \in DirsOf(f, <<>>) : \E P \in BuiltinDirPatterns : NameMatches(P, dir)
\* The directories _discover_files scans for the given explicit paths.
ScannedDirs(tree, paths) ==
    IF paths = <<>> THEN {<<>>}
    ELSE {paths[k] : k \in {j \in 1..Len(paths) : paths[j] \notin tree}}

\* C14: a scan never returns a file that lies under a built-in excluded
\* directory below the directory that is scanned, whatever include and
\* exclude patterns are given; the only other files discovery returns are
\* the explicit file paths, which are taken as they are.
C14_ScansSkipBuiltinDirs ==
    call.fn = "_discover_files" =>
        \A f \in call.result :
            \/ \E k \in 1..Len(call.args.paths) : call.args.paths[k] = f
            \/ \E dir \in ScannedDirs(call.args.tree, call.args.paths) :
                  /\ f \in Below(call.args.tree, dir)
                  /\ ~UnderExcludedDir(RelativeTo(f, dir))

\* A scan of the root of a tree that has a file under build/, with an
\* include pattern that names build/, which still returns something.
C14_Witness ==
    /\ call.fn = "_discover_files"
    /\ call.args.paths = <<>>
    /\ call.args.include # <<>>
    /\ \E f \in call.args.tree : UnderExcludedDir(f)
    /\ \E f \in call.args.tree : f \notin call.result /\ ~UnderExcludedDir(f)

\* C14 as stated: whatever explicit paths and patterns are given, no
\* discovered file lies under a built-in excluded directory.
C14_NoFileUnderBuiltinDir ==
    call.fn = "_discover_files" => \A f \in call.result : ~UnderExcludedDir(f)

\* C15: check_staleness does not change the store: the seven tables and
\* the seven id sequences are after the call what they were before it,
\* for any arguments and any store, whether the call returns or raises.
C15_CheckStalenessLeavesStore ==
    last.op = "check_staleness" =>
        /\ \A t \in Tables : db[t] = call.args.before[t]
        /\ db.seq = call.args.before.seq

\* A check that found an indexed file out of scope and another one new.
C15_Witness ==
    /\ last.op = "check_staleness"
    /\ call.result.removed # <<>>
    /\ call.result.added # <<>>
    /\ db.definitions # {}

\* C16: opening a directory that has every parquet file but class_bases
\* succeeds with an empty class_bases table whose next id is 1; opening a
\* directory that holds parquet files but lacks one of the six other
\* tables fails with an error.
C16_OnlyClassBasesMayBeMissing ==
    call.fn = "open" =>
        LET seg == call.args.segments
        IN  /\ (seg["class_bases"] = "missing" /\ \A t \in RequiredTables : seg[t] = "ok") =>
                  /\ call.result.status = "ok"
                  /\ call.result.db.class_bases = {}
                  /\ call.result.db.seq.class_bases = 1
            /\ ((\E t \in Tables : seg[t] # "missing")
                  /\ (\E t \in RequiredTables : seg[t] = "missing")) =>
                  call.result.status # "ok"

\* C17: the index command removes the parquet directory only when the
\* open failed with a schema error and --force was given; after an open
\* that failed with an I/O error the directory is still there.
C17_ResetOnlyOnSchemaError ==
    last.op = "open" =>
        /\ last.reset => (last.status = "schema_error" /\ last.force)
        /\ (last.status = "io_error") => snapshot.exists

\* C18: when several Definition rows match the name given to
\* get_definition, by name or by full_name, the row returned has the
\* largest end_line - line of all matching rows.
C18_LongestBodyWins ==
    call.fn = "get_definition" =>
        \A x \in call.result :
            \A y \in LookupMatches(db, call.args.name) : BodySpan(x) >= BodySpan(y)

\* The Call rows of the exported snapshot that point at a definition the
\* snapshot does not hold.
DanglingCalls(snap) ==
    {c \in snap.calls :
        \/ c.caller_id \notin {x.id : x \in snap.definitions}
        \/ c.callee_id # Null /\ c.callee_id \notin {x.id : x \in snap.definitions}}

\* C19: a watch batch that changes the store rebuilds the parent links and
\* the call graph after its changes and before it exports, so no exported
\* snapshot holds a Call row whose caller_id or callee_id is the id of a
\* definition of a deleted file.
C19_WatchExportsRebuiltCalls ==
    snapshot.exists => DanglingCalls(snapshot) = {}

\* What a reader loads from the directory one export left behind.
LoadedFrom(snap) == IF snap.exists THEN open_parquet(snap) ELSE EmptyDb

\* C20: a reader that opens the directory at any moment, also during an
\* export or after the writer was killed in one, loads seven tables that
\* all come from one export: the one being written, the one before it,
\* or none when the directory holds no definitions yet.
C20_ReaderLoadsOneExport ==
    (call.fn = "open" /\ call.result.status = "ok")
        => call.result.db \in {LoadedFrom(NoSnapshot), LoadedFrom(call.args.before),
                               LoadedFrom(call.args.source)}

\* C21: every path check_staleness reports in removed is the path of an
\* indexed file that is no longer on disk; an indexed file that is still
\* on disk but outside the paths or patterns of the call is not reported.
C21_RemovedAreGoneFromDisk ==
    Checked =>
        \A p \in Range(run.staleness.removed) :
            /\ get_file(run.pre, p) # {}
            /\ disk[p] = Absent

\* The files whose analysis raised in the index call.
AnalysisErrors ==
    {run.stats.errors[k].file : k \in {j \in 1..Len(run.stats.errors) :
                                          run.stats.errors[j].error = "analysis_error"}}

\* C22: a File row is created only by a successful analysis: after an
\* index run in which the analysis of a file failed, the store holds no
\* File row for that path with the hash of the content that failed.
C22_NoFileRowForFailedAnalysis ==
    Returned =>
        \A p \in AnalysisErrors :
            \A f \in get_file(db, p) : f.hash # compute_file_hash(disk[p])

\* C23: an index run that does not execute the post-processing passes
\* (files_indexed = 0 and files_removed = 0) leaves the seven tables as
\* they were before the run.
C23_NoPostProcessingNoChange ==
    (Returned /\ run.stats.files_indexed = 0 /\ run.stats.files_removed = 0)
        => \A t \in Tables : db[t] = run.pre[t]

\* The definitions of file file_id that name a parent present in the file,
\* and the call references of the file that lie inside a function or class.
NamedParentIn(d, file_id) ==
    {x \in d.definitions : /\ x.file_id = file_id
                           /\ x.parent_full_name # NoName
                           /\ ParentCandidates(d, x) # {Null}}
CallRefsIn(d, file_id) == {r \in JoinedCallRefs(d) : r.file_id = file_id}

\* C24: index_single_file deletes and re-creates the file's rows and,
\* before it returns, has rebuilt the parent links and the call graph:
\* the file's new definitions have parent_id resolved and its call
\* references have their Call rows.
C24_SingleFileRebuilds ==
    [][\A p \in Paths :
          (IndexSingleFile(p) /\ \E f \in get_file(db', p) : f.id = db.seq.files) =>
              /\ \A x \in NamedParentIn(db', db.seq.files) :
                    x.parent_id \in ParentCandidates(db', x)
              /\ \A r \in CallRefsIn(db', db.seq.files) :
                    \E c \in db'.calls :
                        c.file_id = r.file_id /\ c.line = r.line /\ c.col = r.col]_vars

\* The Call rows on every column but the id.
CallsWithoutId(d) ==
    {[caller_full_name |-> c.caller_full_name, callee_full_name |-> c.callee_full_name,
      callee_name |-> c.callee_name, caller_id |-> c.caller_id, callee_id |-> c.callee_id,
      file_id |-> c.file_id, line |-> c.line, col |-> c.col] : c \in d.calls}

\* C25: populate_parent_ids and build_call_graph are idempotent: applied a
\* second time to the store they have just rebuilt they yield the same
\* parent_id for every Definition and the same Call rows up to the id,
\* also when several Definitions share a full_name.
C25_RebuildsAreIdempotent ==
    [][/\ PopulateParentIds =>
             \A par \in ParentChoices(db') :
                 populate_parent_ids(db', par).definitions = db'.definitions
       /\ BuildCallGraph =>
             \A ch \in CallChoices(db') :
                 CallsWithoutId(build_call_graph(db', ch)) = CallsWithoutId(db')]_vars

\* The indexed files other than p that are still on disk when a watch
\* batch begins.
OtherIndexedFiles(p) ==
    {q \in Paths \ {p} : /\ snapshot.exists
                         /\ disk[q] # Absent
                         /\ \E f \in snapshot.files : f.path = q}

\* C27: a watch batch in which only file p changed leaves every other
\* indexed file that is still on disk intact: its File row and dependents
\* are still in the store and in the exported snapshot.
C27_WatchBatchKeepsOtherFiles ==
    [][\A p \in Paths :
          WatchBatch(<<p>>, <<>>) =>
              \A q \in OtherIndexedFiles(p) :
                  /\ FileView(db', q) = FileView(LoadedFrom(snapshot), q)
                  /\ \E f \in snapshot'.files : f.path = q]_vars

\* C28: identity counters only grow: no step of a process lowers a
\* table's counter, and a process that re-hydrates the store that was
\* just exported starts each counter at or above the exporter's, so an
\* id that was assigned once is never assigned to another row.
C28_CountersOnlyGrow ==
    [][(~Open \/ snapshot = export_to_parquet(db)) =>
          \A t \in Tables : db'.seq[t] >= db.seq[t]]_vars

\* C29: a file whose analysis failed is retried: while a discovered file
\* holds content whose analysis fails, a not forced index run treats the
\* index as stale and analyzes the file again instead of skipping.
C29_FailedFileIsRetried ==
    (Returned /\ ~run.force /\ \E p \in Discovered : AnalysisFails(disk[p]))
        => ~run.stats.index_skipped

\* C30: the statistics of an index run agree with the store:
\* decorators_added and class_bases_added are the numbers of Decorator and
\* ClassBase rows the run inserted; rows dropped because their owner could
\* not be resolved are not counted.
C30_StatsCountInsertedRows ==
    Returned =>
        /\ run.stats.decorators_added = db.seq.decorators - run.pre.seq.decorators
        /\ run.stats.class_bases_added = db.seq.class_bases - run.pre.seq.class_bases

\* The positions of the call sites in a sequence of nodes, and the number
\* call_info gives a site.
RECURSIVE SitesIn(_)
SitesIn(children) ==
    IF children = <<>> THEN {}
    ELSE {Head(children).at} \cup SitesIn(Head(children).args) \cup SitesIn(Tail(children))
OrderOf(at) == call.result[at][1]

\* C26: call_order counts within the enclosing scope: the call sites of
\* one function body are numbered 1..n, a call among another call's
\* arguments before the enclosing call, however many calls the functions
\* earlier in the file hold.
C26_CallOrderCountsPerFunction ==
    call.fn = "call_order" =>
        \A k \in 1..Len(call.args.tree) :
            /\ {OrderOf(at) : at \in SitesIn(call.args.tree[k].args)}
                  = 1..Cardinality(SitesIn(call.args.tree[k].args))
            /\ \A j \in 1..Len(call.args.tree[k].args) :
                  \A at \in SitesIn(call.args.tree[k].args[j].args) :
                      OrderOf(at) < OrderOf(call.args.tree[k].args[j].at)

====
